---- MODULE Spec2Model ----
(***************************************************************************)
(* Credential validation and account lifecycle of odpidentity.lib.users.   *)
(*                                                                         *)
(* The password policy works on sequences of one-character strings; the   *)
(* store and the requests hold strings, and Chars gives their characters.  *)
(* A password hash is a                                                    *)
(* record [pw, params]: the password it was derived from and the argon2    *)
(* parameter set embedded in it ("cur" = the library's current defaults,   *)
(* "old" = defaults of an earlier library version, "bad" = a malformed     *)
(* hash string that cannot be decoded).                                    *)
(***************************************************************************)
EXTENDS Integers, Sequences, FiniteSets, TLC

VARIABLES store, last, req

vars == <<store, last, req>>

----------------------------------------------------------------------------
(* Bounds and input alphabets *)

MaxInitUsers == 1

NumProcs == 2

Email1 == "new@x.com"

Email2 == "a@x.com"

Emails == {Email1, Email2}

\* meets every complexity rule for both emails
PwGood == "GoodPass1!23456"

\* too short, no uppercase, no symbol
PwWeak == "123qwe"

\* meets the character rules but embeds "new", a window of Email1 only
PwEmbed == "New!Pass1234567"

Passwords == {PwGood, PwWeak, PwEmbed}

NoStr == ""

\* the characters of each string the model uses
Chars(str) ==
    CASE str = Email1  -> <<"n","e","w","@","x",".","c","o","m">>
      [] str = Email2  -> <<"a","@","x",".","c","o","m">>
      [] str = PwGood  -> <<"G","o","o","d","P","a","s","s","1","!","2","3","4","5","6">>
      [] str = PwWeak  -> <<"1","2","3","q","w","e">>
      [] str = PwEmbed -> <<"N","e","w","!","P","a","s","s","1","2","3","4","5","6","7">>
      [] str = NoStr   -> << >>

----------------------------------------------------------------------------
(* Password Policy Engine *)

UpperSeq == <<"A","B","C","D","E","F","G","H","I","J","K","L","M",
              "N","O","P","Q","R","S","T","U","V","W","X","Y","Z">>

LowerSeq == <<"a","b","c","d","e","f","g","h","i","j","k","l","m",
              "n","o","p","q","r","s","t","u","v","w","x","y","z">>

UpperChars == {UpperSeq[i] : i \in 1..Len(UpperSeq)}

LowerChars == {LowerSeq[i] : i \in 1..Len(LowerSeq)}

DigitChars == {"0","1","2","3","4","5","6","7","8","9"}

\* the grave accent of the symbol class (the lexer has no literal for it)
Backtick == "grave"

\* the character class of the symbol regex; its ,-. is the range from comma to dot
SymbolChars == {"!","=",";",":","?",">","@","<","#","$","%","&","'","(",")",
                "*","+",",","-",".","/","[","\\","]","^","_",Backtick,"{","|","}","~"}

\* str.lower() on one character
LowerChar(c) ==
    IF c \in UpperChars
    THEN LowerSeq[CHOOSE i \in 1..Len(UpperSeq) : UpperSeq[i] = c]
    ELSE c

\* str.lower()
Lower(s) == [i \in 1..Len(s) |-> LowerChar(s[i])]

\* Python slice s[i:j] with 0-based i, clipped at the end of s
Slice(s, i, j) ==
    LET hi == IF j < Len(s) THEN j ELSE Len(s)
    IN  IF i >= hi THEN << >> ELSE [k \in 1..(hi - i) |-> s[i + k]]

\* Python "sub in s"
Contains(s, sub) ==
    \E k \in 0..(Len(s) - Len(sub)) : Slice(s, k, k + Len(sub)) = sub

\* re.search(class, s) is not None
HasCharIn(s, class) == \E i \in 1..Len(s) : s[i] \in class

MinLength == 13

check_consecutive_letters(email, password) ==
    ~ \E i \in 0..(Len(email) - 2) :
          Contains(Lower(password), Slice(email, i, i + 3))

\* Faulty variant of check_password_complexity: the symbol check is left out
\* of the conjunction
check_password_complexity_no_symbol(email, password) ==
    LET username_check  == check_consecutive_letters(email, password)
        length_check    == Len(password) >= MinLength
        uppercase_check == HasCharIn(password, UpperChars)
        numeric_check   == HasCharIn(password, DigitChars)
        lowercase_check == HasCharIn(password, LowerChars)
    IN  length_check /\ uppercase_check /\ numeric_check /\ lowercase_check
        /\ username_check

check_password_complexity(email, password) ==
    LET username_check  == check_consecutive_letters(email, password)
        length_check    == Len(password) >= MinLength
        uppercase_check == HasCharIn(password, UpperChars)
        numeric_check   == HasCharIn(password, DigitChars)
        lowercase_check == HasCharIn(password, LowerChars)
        symbol_check    == HasCharIn(password, SymbolChars)
    IN  length_check /\ uppercase_check /\ numeric_check /\ lowercase_check
        /\ symbol_check /\ username_check

----------------------------------------------------------------------------
(* Credential Hasher: argon2.PasswordHasher *)

HashParams == {"cur", "old"}

ph_hash(password) == [pw |-> password, params |-> "cur"]

\* "match": returns True; "mismatch": raises VerifyMismatchError;
\* "fatal": raises InvalidHash / VerificationError (hash cannot be decoded)
ph_verify(hash, password) ==
    IF hash.params = "bad" THEN "fatal"
    ELSE IF hash.pw = password THEN "match"
    ELSE "mismatch"

ph_check_needs_rehash(hash) == hash.params # "cur"

----------------------------------------------------------------------------
(* Account State Gate *)

is_account_locked(user) == FALSE

\* Faulty variant of lock_account: a failed attempt locks the account
lock_account_locks(user) == TRUE

lock_account(user) == FALSE

----------------------------------------------------------------------------
(* User store: the session of odpaccounts.db over the User table.  A user  *)
(* id is the row's position in store; 0 stands for "no row".               *)

NoUser == [email |-> NoStr, password |-> [pw |-> NoStr, params |-> "cur"],
           superuser |-> FALSE, active |-> FALSE, verified |-> FALSE]

\* query(User).filter_by(email=email): the ids of the matching rows
filter_by_email(s, email) == {i \in 1..Len(s) : s[i].email = email}

\* .first(): one matching row (the query has no ORDER BY), or none
first(ids) == IF ids = {} THEN {0} ELSE ids

\* query(User).get(user_id)
get(s, user_id) == IF user_id \in 1..Len(s) THEN user_id ELSE 0

\* the loaded instance of row uid
loaded(s, uid) == IF uid = 0 THEN NoUser ELSE s[uid]

\* add(user); commit() of a new instance
commit_new(s, user) == Append(s, user)

\* add(user); commit() after user.password was assigned
commit_password(s, uid, hash) == [s EXCEPT ![uid].password = hash]

\* add(user); commit() after user.verified was assigned
commit_verified(s, uid, verified) == [s EXCEPT ![uid].verified = verified]

----------------------------------------------------------------------------
(* Login Validator *)

\* Faulty variant of login_password_step: the rehash sits where it also runs
\* after a mismatch
login_password_step_rehash_always(user, password) ==
    LET v == ph_verify(user.password, password)
    IN  IF v = "fatal"
        THEN [verify |-> v, lock |-> FALSE, raised |-> "Fatal",
              rehash |-> FALSE, hash |-> user.password]
        ELSE [verify |-> v, lock |-> v = "mismatch",
              raised |-> IF v = "match" THEN "none"
                         ELSE IF lock_account(user) THEN "AccountLocked"
                         ELSE "IncorrectPassword",
              rehash |-> TRUE, hash |-> ph_hash(password)]

\* Faulty variant of login_password_step: the except clause catches every
\* error of ph.verify, not only VerifyMismatchError
login_password_step_catch_all(user, password) ==
    LET v == ph_verify(user.password, password)
    IN  IF v = "match"
        THEN [verify |-> v, lock |-> FALSE, raised |-> "none",
              rehash |-> ph_check_needs_rehash(user.password),
              hash |-> IF ph_check_needs_rehash(user.password)
                       THEN ph_hash(password) ELSE user.password]
        ELSE [verify |-> v, lock |-> TRUE,
              raised |-> IF lock_account(user) THEN "AccountLocked"
                         ELSE "IncorrectPassword",
              rehash |-> FALSE, hash |-> user.password]

\* The try block of validate_user_login on a loaded user: the result of
\* ph.verify, whether lock_account ran, the exception that leaves the block
\* ("none" when it falls through) and the hash to commit when rehash is set.
login_password_step(user, password) ==
    LET v == ph_verify(user.password, password)
    IN  IF v = "match"
        THEN [verify |-> v, lock |-> FALSE, raised |-> "none",
              rehash |-> ph_check_needs_rehash(user.password),
              hash |-> IF ph_check_needs_rehash(user.password)
                       THEN ph_hash(password) ELSE user.password]
        ELSE IF v = "mismatch"
        THEN [verify |-> v, lock |-> TRUE,
              raised |-> IF lock_account(user) THEN "AccountLocked"
                         ELSE "IncorrectPassword",
              rehash |-> FALSE, hash |-> user.password]
        ELSE [verify |-> v, lock |-> FALSE, raised |-> "Fatal",
              rehash |-> FALSE, hash |-> user.password]

\* Faulty variant of login_state_checks: verified is tested before active
login_state_checks_verified_first(user) ==
    IF ~user.verified THEN "EmailNotVerified"
    ELSE IF ~user.active THEN "AccountDisabled"
    ELSE "User"

\* The checks of validate_user_login after the try block
login_state_checks(user) ==
    IF ~user.active THEN "AccountDisabled"
    ELSE IF ~user.verified THEN "EmailNotVerified"
    ELSE "User"

\* Faulty variant of validate_user_login: the account flags are tested
\* before the password
validate_user_login_flags_first(s, uid, user, password) ==
    IF uid = 0
    THEN [outcome |-> "UserNotFound", store |-> s, verify |-> "none",
          rehash |-> FALSE, lock |-> FALSE]
    ELSE IF is_account_locked(user)
    THEN [outcome |-> "AccountLocked", store |-> s, verify |-> "none",
          rehash |-> FALSE, lock |-> FALSE]
    ELSE IF login_state_checks(user) # "User"
    THEN [outcome |-> login_state_checks(user), store |-> s,
          verify |-> "none", rehash |-> FALSE, lock |-> FALSE]
    ELSE LET r  == login_password_step(user, password)
             s2 == IF r.rehash THEN commit_password(s, uid, r.hash) ELSE s
         IN  [outcome |-> IF r.raised # "none" THEN r.raised ELSE "User",
              store |-> s2, verify |-> r.verify, rehash |-> r.rehash,
              lock |-> r.lock]

\* Faulty variant of validate_user_login: an unknown email is reported as a
\* wrong password
validate_user_login_hide_missing(s, uid, user, password) ==
    IF uid = 0
    THEN [outcome |-> "IncorrectPassword", store |-> s, verify |-> "none",
          rehash |-> FALSE, lock |-> FALSE]
    ELSE IF is_account_locked(user)
    THEN [outcome |-> "AccountLocked", store |-> s, verify |-> "none",
          rehash |-> FALSE, lock |-> FALSE]
    ELSE LET r  == login_password_step(user, password)
             s2 == IF r.rehash THEN commit_password(s, uid, r.hash) ELSE s
         IN  [outcome |-> IF r.raised # "none" THEN r.raised
                          ELSE login_state_checks(user),
              store |-> s2, verify |-> r.verify, rehash |-> r.rehash,
              lock |-> r.lock]

\* validate_user_login from the looked-up row on: uid = 0 when the query
\* found nothing, user is the instance loaded by the query, s the store at
\* the time of the commit.
validate_user_login(s, uid, user, password) ==
    IF uid = 0
    THEN [outcome |-> "UserNotFound", store |-> s, verify |-> "none",
          rehash |-> FALSE, lock |-> FALSE]
    ELSE IF is_account_locked(user)
    THEN [outcome |-> "AccountLocked", store |-> s, verify |-> "none",
          rehash |-> FALSE, lock |-> FALSE]
    ELSE LET r  == login_password_step(user, password)
             s2 == IF r.rehash THEN commit_password(s, uid, r.hash) ELSE s
         IN  [outcome |-> IF r.raised # "none" THEN r.raised
                          ELSE login_state_checks(user),
              store |-> s2, verify |-> r.verify, rehash |-> r.rehash,
              lock |-> r.lock]

\* Faulty variant of validate_auto_login: verified is tested before active
validate_auto_login_verified_first(uid, user) ==
    IF uid = 0 THEN "UserNotFound"
    ELSE IF is_account_locked(user) THEN "AccountLocked"
    ELSE IF ~user.verified THEN "EmailNotVerified"
    ELSE IF ~user.active THEN "AccountDisabled"
    ELSE "User"

validate_auto_login(uid, user) ==
    IF uid = 0 THEN "UserNotFound"
    ELSE IF is_account_locked(user) THEN "AccountLocked"
    ELSE IF ~user.active THEN "AccountDisabled"
    ELSE IF ~user.verified THEN "EmailNotVerified"
    ELSE "User"

----------------------------------------------------------------------------
(* Account Lifecycle Manager *)

\* check_password_complexity(email, password) for the strings the model draws
password_complexity ==
    [email \in Emails, password \in Passwords |->
        check_password_complexity(Chars(email), Chars(password))]

\* Faulty variant of validate_user_signup: the email lookup is not tested
validate_user_signup_no_lookup(uid, email, password) ==
    IF ~password_complexity[email, password]
    THEN "PasswordComplexityError"
    ELSE "Ok"

\* Faulty variant of validate_user_signup: complexity is tested first
validate_user_signup_complexity_first(uid, email, password) ==
    IF ~password_complexity[email, password]
    THEN "PasswordComplexityError"
    ELSE IF uid # 0 THEN "EmailInUse"
    ELSE "Ok"

validate_user_signup(uid, email, password) ==
    IF uid # 0 THEN "EmailInUse"
    ELSE IF ~password_complexity[email, password]
    THEN "PasswordComplexityError"
    ELSE "Ok"

\* Faulty variant of validate_forgot_password: verified is tested as in the
\* login validators
validate_forgot_password_checks_verified(uid, user) ==
    IF uid = 0 THEN "UserNotFound"
    ELSE IF is_account_locked(user) THEN "AccountLocked"
    ELSE IF ~user.active THEN "AccountDisabled"
    ELSE IF ~user.verified THEN "EmailNotVerified"
    ELSE "User"

validate_forgot_password(uid, user) ==
    IF uid = 0 THEN "UserNotFound"
    ELSE IF is_account_locked(user) THEN "AccountLocked"
    ELSE IF ~user.active THEN "AccountDisabled"
    ELSE "User"

\* Faulty variant of validate_password_reset: complexity is tested before
\* the lookup result
validate_password_reset_complexity_first(uid, email, password) ==
    IF ~password_complexity[email, password]
    THEN "PasswordComplexityError"
    ELSE IF uid = 0 THEN "UserNotFound"
    ELSE "User"

validate_password_reset(uid, email, password) ==
    IF uid = 0 THEN "UserNotFound"
    ELSE IF ~password_complexity[email, password]
    THEN "PasswordComplexityError"
    ELSE "User"

validate_email_verification(uid) ==
    IF uid = 0 THEN "UserNotFound" ELSE "User"

\* Faulty variant of create_user_account: the new account starts verified
create_user_account_verified(s, email, password) ==
    commit_new(s, [email |-> email, password |-> ph_hash(password),
                   superuser |-> FALSE, active |-> TRUE, verified |-> TRUE])

create_user_account(s, email, password) ==
    commit_new(s, [email |-> email, password |-> ph_hash(password),
                   superuser |-> FALSE, active |-> TRUE, verified |-> FALSE])

\* Faulty variant of update_user_verified: the flag is written to active too
update_user_verified_sets_active(s, uid, verified) ==
    [commit_verified(s, uid, verified) EXCEPT ![uid].active = verified]

\* Faulty variant of update_user_verified: the stored flag is flipped
update_user_verified_toggle(s, uid, verified) ==
    commit_verified(s, uid, ~s[uid].verified)

update_user_verified(s, uid, verified) == commit_verified(s, uid, verified)

\* Faulty variant of update_user_password: the new hash is not committed
update_user_password_no_commit(s, uid, password) == s

update_user_password(s, uid, password) ==
    commit_password(s, uid, ph_hash(password))

----------------------------------------------------------------------------
(* State machine.  store is the User table; last records the most recent   *)
(* call of the core: its arguments, the row it looked up, its outcome and   *)
(* what its password step did; req is each request's position in a         *)
(* multi-step flow (a signup between validation and creation, a login       *)
(* between its query and its commit).                                       *)

Procs == 1..NumProcs

Hashes(params) == [pw : Passwords, params : params]

Users(params) == [email : Emails, password : Hashes(params),
                  superuser : BOOLEAN, active : BOOLEAN, verified : BOOLEAN]

\* the tables with at most MaxInitUsers rows and no email twice
Stores(params) ==
    {s \in UNION {[1..n -> Users(params)] : n \in 0..MaxInitUsers} :
        \A i, j \in 1..Len(s) : s[i].email = s[j].email => i = j}

Idle == [pc |-> "idle", email |-> NoStr, password |-> NoStr, uid |-> 0,
         user |-> NoUser]

NoCall == [op |-> "none", email |-> NoStr, password |-> NoStr, uid |-> 0,
           outcome |-> "none", verify |-> "none", rehash |-> FALSE,
           lock |-> FALSE]

Call(op, email, password, uid, outcome) ==
    [op |-> op, email |-> email, password |-> password, uid |-> uid,
     outcome |-> outcome, verify |-> "none", rehash |-> FALSE, lock |-> FALSE]

Init ==
    /\ store \in Stores(HashParams)
    /\ last = NoCall
    /\ req = [p \in Procs |-> Idle]

\* a stored value that is no argon2 hash string
BadHash == [pw |-> NoStr, params |-> "bad"]

\* as Init, with rows whose stored hash has been damaged in the table
InitCorrupt ==
    /\ \E s \in Stores(HashParams), bad \in SUBSET (1..MaxInitUsers) :
          store = [i \in 1..Len(s) |->
                     IF i \in bad THEN [s[i] EXCEPT !.password = BadHash]
                     ELSE s[i]]
    /\ last = NoCall
    /\ req = [p \in Procs |-> Idle]

ValidateLogin(email, password) ==
    \E uid \in first(filter_by_email(store, email)) :
        LET r == validate_user_login(store, uid, loaded(store, uid), password)
        IN  /\ store' = r.store
            /\ last' = [op |-> "ValidateLogin", email |-> email,
                        password |-> password, uid |-> uid,
                        outcome |-> r.outcome, verify |-> r.verify,
                        rehash |-> r.rehash, lock |-> r.lock]
            /\ UNCHANGED req

ValidateAutoLogin(user_id) ==
    LET uid == get(store, user_id)
    IN  /\ last' = Call("ValidateAutoLogin", NoStr, NoStr, user_id,
                        validate_auto_login(uid, loaded(store, uid)))
        /\ UNCHANGED <<store, req>>

ValidateSignup(p, email, password) ==
    /\ req[p].pc \in {"idle", "validated"}
    /\ \E uid \in first(filter_by_email(store, email)) :
        LET out == validate_user_signup(uid, email, password)
        IN  /\ last' = Call("ValidateSignup", email, password, uid, out)
            /\ req' = [req EXCEPT ![p] =
                         IF out = "Ok"
                         THEN [Idle EXCEPT !.pc = "validated", !.email = email,
                                           !.password = password]
                         ELSE Idle]
            /\ UNCHANGED store

\* create_user_account, called by a signup whose validation passed
CreateAccount(p) ==
    /\ req[p].pc = "validated"
    /\ store' = create_user_account(store, req[p].email, req[p].password)
    /\ last' = Call("CreateAccount", req[p].email, req[p].password,
                    Len(store) + 1, "User")
    /\ req' = [req EXCEPT ![p] = Idle]

ValidateForgotPassword(email) ==
    \E uid \in first(filter_by_email(store, email)) :
        /\ last' = Call("ValidateForgotPassword", email, NoStr, uid,
                        validate_forgot_password(uid, loaded(store, uid)))
        /\ UNCHANGED <<store, req>>

ValidatePasswordReset(email, password) ==
    \E uid \in first(filter_by_email(store, email)) :
        /\ last' = Call("ValidatePasswordReset", email, password, uid,
                        validate_password_reset(uid, email, password))
        /\ UNCHANGED <<store, req>>

ValidateEmailVerification(email) ==
    \E uid \in first(filter_by_email(store, email)) :
        /\ last' = Call("ValidateEmailVerification", email, NoStr, uid,
                        validate_email_verification(uid))
        /\ UNCHANGED <<store, req>>

SetVerified(uid, verified) ==
    /\ uid \in 1..Len(store)
    /\ store' = update_user_verified(store, uid, verified)
    /\ last' = Call("SetVerified", NoStr, NoStr, uid,
                    IF verified THEN "True" ELSE "False")
    /\ UNCHANGED req

SetPassword(uid, password) ==
    /\ uid \in 1..Len(store)
    /\ store' = update_user_password(store, uid, password)
    /\ last' = Call("SetPassword", NoStr, password, uid, "none")
    /\ UNCHANGED req

\* check_password_complexity called on its own by a caller of the core
CheckComplexity(email, password) ==
    /\ last' = Call("CheckComplexity", email, password, 0,
                    IF password_complexity[email, password]
                    THEN "True" ELSE "False")
    /\ UNCHANGED <<store, req>>

\* One request at a time: every call of the core runs to completion
Next ==
    \/ \E e \in Emails, pw \in Passwords : ValidateLogin(e, pw)
    \/ \E id \in 1..(Len(store) + 1) : ValidateAutoLogin(id)
    \/ \E e \in Emails, pw \in Passwords : ValidateSignup(1, e, pw)
    \/ CreateAccount(1)
    \/ \E e \in Emails : ValidateForgotPassword(e)
    \/ \E e \in Emails, pw \in Passwords : ValidatePasswordReset(e, pw)
    \/ \E e \in Emails : ValidateEmailVerification(e)
    \/ \E uid \in 1..Len(store), b \in BOOLEAN : SetVerified(uid, b)
    \/ \E uid \in 1..Len(store), pw \in Passwords : SetPassword(uid, pw)
    \/ \E e \in Emails, pw \in Passwords : CheckComplexity(e, pw)

Spec == Init /\ [][Next]_vars

\* validate_user_login up to its query: the request holds the loaded instance
LoginQuery(p, email, password) ==
    /\ req[p].pc = "idle"
    /\ \E uid \in first(filter_by_email(store, email)) :
        req' = [req EXCEPT ![p] =
                  [pc |-> "login", email |-> email, password |-> password,
                   uid |-> uid, user |-> loaded(store, uid)]]
    /\ UNCHANGED <<store, last>>

\* the rest of validate_user_login, on the instance the query loaded
LoginFinish(p) ==
    /\ req[p].pc = "login"
    /\ LET r == validate_user_login(store, req[p].uid, req[p].user,
                                    req[p].password)
       IN  /\ store' = r.store
           /\ last' = [op |-> "ValidateLogin", email |-> req[p].email,
                       password |-> req[p].password, uid |-> req[p].uid,
                       outcome |-> r.outcome, verify |-> r.verify,
                       rehash |-> r.rehash, lock |-> r.lock]
    /\ req' = [req EXCEPT ![p] = Idle]

\* the email and the passwords that the concurrent requests are about
ConcEmails == {Email1}

ConcPasswords == {PwGood, PwWeak}

\* concurrent requests start on a table of enabled, verified accounts
InitConc ==
    /\ store \in {s \in Stores(HashParams) :
                    \A i \in 1..Len(s) : /\ s[i].active /\ s[i].verified
                                         /\ ~s[i].superuser
                                         /\ s[i].email \in ConcEmails
                                         /\ s[i].password.pw \in ConcPasswords}
    /\ last = NoCall
    /\ req = [p \in Procs |-> Idle]

\* Concurrent requests: other requests commit between a request's query and
\* its commit, and between a signup's validation and its creation
NextConc ==
    \/ \E p \in Procs, e \in ConcEmails, pw \in ConcPasswords :
          LoginQuery(p, e, pw)
    \/ \E p \in Procs : LoginFinish(p)
    \/ \E p \in Procs, e \in ConcEmails, pw \in ConcPasswords :
          ValidateSignup(p, e, pw)
    \/ \E p \in Procs : CreateAccount(p)
    \/ \E uid \in 1..Len(store), pw \in ConcPasswords : SetPassword(uid, pw)

SpecConc == InitConc /\ [][NextConc]_vars

SpecCorrupt == InitCorrupt /\ [][Next]_vars

----------------------------------------------------------------------------
(* The Password Policy Engine on its own: an (email, password) pair of     *)
(* character sequences is drawn, then one of the two functions is applied  *)
(* to it; last holds the pair and then the function's result.              *)

MaxCoreLen == 3

\* "ab@c" and "Ab@c"
PolicyEmails == {<<"a","b","@","c">>, <<"A","b","@","c">>}

\* characters of the emails, an uppercase letter and a digit
PolicyAlphabet == {"a", "b", "@", "c", "A", "1"}

\* characters that occur in no email, used to lengthen a password
FillChars == {"x", "7"}

\* no filling, or filling that brings the longest cores to one less than,
\* exactly and one more than the minimum length
FillLens == {0} \cup {MinLength - MaxCoreLen + d : d \in {-1, 0, 1}}

\* a core of up to MaxCoreLen characters followed by a run of one filler
PolicyPasswords ==
    {core \o [i \in 1..n |-> c] :
        core \in UNION {[1..k -> PolicyAlphabet] : k \in 0..MaxCoreLen},
        c \in FillChars, n \in FillLens}

BoolStr(b) == IF b THEN "True" ELSE "False"

InitPolicy ==
    /\ store = << >>
    /\ req = [p \in Procs |-> Idle]
    /\ last \in {Call("Input", e, pw, 0, "none") :
                    e \in PolicyEmails, pw \in PolicyPasswords}

PolicyCheckComplexity ==
    /\ last.op = "Input"
    /\ last' = [last EXCEPT
                  !.op = "check_password_complexity",
                  !.outcome = BoolStr(check_password_complexity(last.email,
                                                                last.password))]
    /\ UNCHANGED <<store, req>>

PolicyCheckConsecutive ==
    /\ last.op = "Input"
    /\ last' = [last EXCEPT
                  !.op = "check_consecutive_letters",
                  !.outcome = BoolStr(check_consecutive_letters(last.email,
                                                                last.password))]
    /\ UNCHANGED <<store, req>>

NextPolicy == PolicyCheckComplexity \/ PolicyCheckConsecutive

SpecPolicy == InitPolicy /\ [][NextPolicy]_vars

----------------------------------------------------------------------------
(* Properties.  In a step, last' describes the call that made the step,    *)
(* store is the table the call found and store' the table it left.         *)

\* the call that made the step is a ValidateLogin that looked up a row
LoginOnUser == last'.op = "ValidateLogin" /\ last'.uid # 0

\* the submitted password is not the one the looked-up row's hash was made of
WrongPassword == store[last'.uid].password.pw # last'.password

\* C1: ValidateLogin returns exactly the first applicable outcome in the
\* order UserNotFound (no user has the email), AccountLocked (IsLocked),
\* on a password mismatch AccountLocked if TryLock locks and
\* IncorrectPassword otherwise, AccountDisabled (not active),
\* EmailNotVerified (not verified), else the user, and nothing else.
C1_LoginOrder ==
    [][last'.op = "ValidateLogin" =>
        LET out == last'.outcome
            u   == loaded(store, last'.uid)
            locked == is_account_locked(u)
        IN  /\ out \in {"UserNotFound", "AccountLocked", "IncorrectPassword",
                        "AccountDisabled", "EmailNotVerified", "User"}
            /\ (out = "UserNotFound") <=> (filter_by_email(store, last'.email) = {})
            /\ last'.uid \in first(filter_by_email(store, last'.email))
            /\ last'.uid # 0 =>
                 /\ (out = "AccountLocked") <=>
                        (locked \/ (WrongPassword /\ lock_account(u)))
                 /\ (out = "IncorrectPassword") <=>
                        (~locked /\ WrongPassword /\ ~lock_account(u))
                 /\ (out = "AccountDisabled") <=>
                        (~locked /\ ~WrongPassword /\ ~u.active)
                 /\ (out = "EmailNotVerified") <=>
                        (~locked /\ ~WrongPassword /\ u.active /\ ~u.verified)
                 /\ (out = "User") <=>
                        (~locked /\ ~WrongPassword /\ u.active /\ u.verified)
    ]_vars

\* a correct password on an inactive, unverified account gave AccountDisabled
C1_Witness ==
    /\ last.op = "ValidateLogin"
    /\ last.outcome = "AccountDisabled"
    /\ last.verify = "match"
    /\ ~store[last.uid].verified

\* C2: ValidateLogin with a wrong password gives IncorrectPassword and the
\* same (unchanged) table whatever the active and verified flags of the
\* looked-up user are; AccountDisabled and EmailNotVerified are returned
\* only after the password has verified.
C2_WrongPasswordLeaksNothing ==
    [][LoginOnUser =>
        /\ WrongPassword =>
             /\ last'.outcome = "IncorrectPassword"
             /\ store' = store
             /\ \A a, v \in BOOLEAN :
                   LET s2 == [store EXCEPT ![last'.uid].active = a,
                                           ![last'.uid].verified = v]
                       r2 == validate_user_login(s2, last'.uid, s2[last'.uid],
                                                 last'.password)
                   IN  r2.outcome = last'.outcome /\ r2.store = s2
        /\ last'.outcome \in {"AccountDisabled", "EmailNotVerified"} =>
             last'.verify = "match" /\ ~WrongPassword
    ]_vars

\* a wrong password on an inactive account gave IncorrectPassword
C2_Witness ==
    /\ last.op = "ValidateLogin"
    /\ last.outcome = "IncorrectPassword"
    /\ ~store[last.uid].active

\* C3: ValidateLogin on an email no user has fails with UserNotFound for
\* every password, verifies and rehashes nothing and leaves the table as
\* it was.
C3_UnknownEmail ==
    [][(last'.op = "ValidateLogin"
        /\ filter_by_email(store, last'.email) = {}) =>
            /\ last'.outcome = "UserNotFound"
            /\ last'.verify = "none"
            /\ ~last'.rehash
            /\ ~last'.lock
            /\ store' = store
    ]_vars

\* a login on an unknown email ended UserNotFound while another account exists
C3_Witness ==
    /\ last.op = "ValidateLogin"
    /\ last.outcome = "UserNotFound"
    /\ filter_by_email(store, last.email) = {}
    /\ Len(store) > 0

\* some stored hash of an existing account differs after the step
HashReplaced ==
    \E i \in 1..Len(store) : store'[i].password # store[i].password

\* C4 as stated: a stored hash is replaced only by SetPassword or by a
\* ValidateLogin that returns the user and rehashes; a ValidateLogin that
\* ends in an error leaves every stored hash as it was.
C4_Original ==
    [][HashReplaced =>
        \/ last'.op = "SetPassword"
        \/ (last'.op = "ValidateLogin" /\ last'.outcome = "User"
            /\ last'.rehash)
    ]_vars

\* C4 amended: a stored hash is replaced only by SetPassword or by a
\* ValidateLogin whose password verification succeeded on a hash that needs
\* a rehash, whether the call then returns the user or fails with
\* AccountDisabled or EmailNotVerified; only the looked-up user's hash is
\* replaced, and a ValidateLogin that ends in UserNotFound, AccountLocked
\* or IncorrectPassword leaves every stored hash as it was.
C4_HashReplacedOnlyBy ==
    [][HashReplaced =>
        \/ last'.op = "SetPassword"
        \/ /\ LoginOnUser
           /\ last'.verify = "match"
           /\ ph_check_needs_rehash(store[last'.uid].password)
           /\ last'.outcome \in {"User", "AccountDisabled", "EmailNotVerified"}
           /\ \A i \in 1..Len(store) :
                 store'[i].password # store[i].password => i = last'.uid
    ]_vars

\* a login that ended AccountDisabled replaced the stored hash
C4_Witness ==
    /\ last.op = "ValidateLogin"
    /\ last.outcome = "AccountDisabled"
    /\ last.rehash
    /\ store[last.uid].password = ph_hash(last.password)

\* C5 as stated: a rehash write of ValidateLogin cannot resurrect a password
\* that SetPassword changed concurrently: a ValidateLogin never leaves a
\* stored hash that verifies the submitted password when the hash it found
\* in the table at its commit did not.
C5_Original ==
    [][LoginOnUser =>
        (ph_verify(store'[last'.uid].password, last'.password) = "match"
            => ph_verify(store[last'.uid].password, last'.password) = "match")
    ]_vars

\* C6 as stated: at most one user has any given email, also when signup
\* flows interleave.
C6_Original ==
    \A i, j \in 1..Len(store) : store[i].email = store[j].email => i = j

\* C7 as stated: after a ValidateSignup that succeeded, the next
\* ValidateSignup with the same email fails with EmailInUse.
C7_Original ==
    [][(/\ last.op = "ValidateSignup" /\ last.outcome = "Ok"
        /\ last'.op = "ValidateSignup" /\ last'.email = last.email) =>
            last'.outcome = "EmailInUse"
    ]_vars

\* C7 amended: after ValidateSignup(email, password) succeeded and
\* CreateAccount(email, password) has then been called, every later
\* ValidateSignup with the same email fails with EmailInUse: CreateAccount
\* leaves a user with its email in the table, no call removes a user or
\* changes a user's email, and ValidateSignup on an email that a user has
\* fails with EmailInUse.
C7_SignupAfterCreate ==
    [][/\ last'.op = "CreateAccount" =>
            /\ \E p \in Procs : /\ req[p].pc = "validated"
                                /\ req[p].email = last'.email
            /\ filter_by_email(store', last'.email) # {}
       /\ \A i \in 1..Len(store) :
            i <= Len(store') /\ store'[i].email = store[i].email
       /\ (last'.op = "ValidateSignup"
           /\ filter_by_email(store, last'.email) # {}) =>
                last'.outcome = "EmailInUse"
    ]_vars

\* a ValidateSignup failed with EmailInUse on the email of an account that
\* CreateAccount added
C7_Witness ==
    /\ last.op = "ValidateSignup"
    /\ last.outcome = "EmailInUse"
    /\ Len(store) > MaxInitUsers
    /\ store[Len(store)].email = last.email

\* C8: ValidateSignup fails with EmailInUse whenever a user has the email
\* (also when the password fails the complexity check), fails with
\* PasswordComplexityError only when no user has it and CheckComplexity
\* rejects, otherwise succeeds; in all cases the table is unchanged.
C8_SignupOutcome ==
    [][last'.op = "ValidateSignup" =>
        LET inUse == \E i \in 1..Len(store) : store[i].email = last'.email
            ok    == password_complexity[last'.email, last'.password]
        IN  /\ inUse => last'.outcome = "EmailInUse"
            /\ (last'.outcome = "PasswordComplexityError") <=> (~inUse /\ ~ok)
            /\ (last'.outcome = "Ok") <=> (~inUse /\ ok)
            /\ last'.outcome \in {"EmailInUse", "PasswordComplexityError", "Ok"}
            /\ store' = store
    ]_vars

\* a ValidateSignup with an email in use and a non-compliant password failed
\* with EmailInUse
C8_Witness ==
    /\ last.op = "ValidateSignup"
    /\ last.outcome = "EmailInUse"
    /\ ~password_complexity[last.email, last.password]

\* C9: ValidateAutoLogin returns the first applicable outcome in the order
\* UserNotFound (no user has the id), AccountLocked, AccountDisabled,
\* EmailNotVerified, else the user; the outcome is the same for every
\* stored hash, nothing is verified or rehashed and the table is unchanged.
C9_AutoLogin ==
    [][last'.op = "ValidateAutoLogin" =>
        LET out   == last'.outcome
            found == last'.uid \in 1..Len(store)
            u     == loaded(store, IF found THEN last'.uid ELSE 0)
        IN  /\ (out = "UserNotFound") <=> ~found
            /\ found =>
                 /\ (out = "AccountLocked") <=> is_account_locked(u)
                 /\ (out = "AccountDisabled") <=>
                        (~is_account_locked(u) /\ ~u.active)
                 /\ (out = "EmailNotVerified") <=>
                        (~is_account_locked(u) /\ u.active /\ ~u.verified)
                 /\ (out = "User") <=>
                        (~is_account_locked(u) /\ u.active /\ u.verified)
                 /\ \A h \in Hashes(HashParams) \cup {BadHash} :
                        validate_auto_login(last'.uid,
                            [u EXCEPT !.password = h]) = out
            /\ last'.verify = "none"
            /\ ~last'.rehash
            /\ store' = store
    ]_vars

\* an auto login on an inactive, unverified account ended AccountDisabled
C9_Witness ==
    /\ last.op = "ValidateAutoLogin"
    /\ last.outcome = "AccountDisabled"
    /\ ~store[last.uid].verified

\* C10: on a malformed stored hash ValidateLogin ends in the fatal error,
\* never IncorrectPassword, without invoking TryLock and with the table
\* unchanged; IncorrectPassword is given only for a well-formed hash that
\* was made of another password.
C10_MalformedHashIsFatal ==
    [][LoginOnUser =>
        /\ store[last'.uid].password.params = "bad" =>
             /\ last'.outcome = "Fatal"
             /\ ~last'.lock
             /\ ~last'.rehash
             /\ store' = store
        /\ last'.outcome = "IncorrectPassword" =>
             /\ store[last'.uid].password.params # "bad"
             /\ WrongPassword
        /\ last'.outcome = "Fatal" =>
             store[last'.uid].password.params = "bad"
    ]_vars

\* a login on an account with a malformed hash ended in the fatal error
C10_Witness ==
    /\ last.op = "ValidateLogin"
    /\ last.outcome = "Fatal"
    /\ store[last.uid].password = BadHash

\* C11: ValidateForgotPassword returns the first applicable outcome in the
\* order UserNotFound, AccountLocked, AccountDisabled, else the user; the
\* outcome is the same whatever the verified flag is, and the table is
\* unchanged.
C11_ForgotPassword ==
    [][last'.op = "ValidateForgotPassword" =>
        LET out   == last'.outcome
            found == filter_by_email(store, last'.email) # {}
            u     == loaded(store, last'.uid)
        IN  /\ last'.uid \in first(filter_by_email(store, last'.email))
            /\ (out = "UserNotFound") <=> ~found
            /\ found =>
                 /\ (out = "AccountLocked") <=> is_account_locked(u)
                 /\ (out = "AccountDisabled") <=>
                        (~is_account_locked(u) /\ ~u.active)
                 /\ (out = "User") <=> (~is_account_locked(u) /\ u.active)
                 /\ \A v \in BOOLEAN :
                        validate_forgot_password(last'.uid,
                            [u EXCEPT !.verified = v]) = out
            /\ store' = store
    ]_vars

\* a forgotten-password request on an active, unverified account returned
\* the user
C11_Witness ==
    /\ last.op = "ValidateForgotPassword"
    /\ last.outcome = "User"
    /\ ~store[last.uid].verified

\* C12: ValidatePasswordReset fails with UserNotFound when no user has the
\* email (also when the new password fails complexity), fails with
\* PasswordComplexityError when the user exists and CheckComplexity rejects,
\* otherwise returns the user; the outcome does not depend on the user's
\* active, verified or locked state and no stored hash changes.
C12_PasswordReset ==
    [][last'.op = "ValidatePasswordReset" =>
        LET out   == last'.outcome
            found == filter_by_email(store, last'.email) # {}
            ok    == password_complexity[last'.email, last'.password]
        IN  /\ last'.uid \in first(filter_by_email(store, last'.email))
            /\ (out = "UserNotFound") <=> ~found
            /\ (out = "PasswordComplexityError") <=> (found /\ ~ok)
            /\ (out = "User") <=> (found /\ ok)
            /\ Len(store') = Len(store)
            /\ \A i \in 1..Len(store) :
                   store'[i].password = store[i].password
    ]_vars

\* a password reset with a compliant password on an inactive, unverified
\* account returned the user
C12_Witness ==
    /\ last.op = "ValidatePasswordReset"
    /\ last.outcome = "User"
    /\ ~store[last.uid].active
    /\ ~store[last.uid].verified

\* row i of the table before and after the step agree outside field f
SameExcept(i, f) ==
    /\ f # "email"     => store'[i].email = store[i].email
    /\ f # "password"  => store'[i].password = store[i].password
    /\ f # "superuser" => store'[i].superuser = store[i].superuser
    /\ f # "active"    => store'[i].active = store[i].active
    /\ f # "verified"  => store'[i].verified = store[i].verified

\* C13: a User record is written only by CreateAccount, SetVerified,
\* SetPassword and the rehash of ValidateLogin.  ValidateAutoLogin,
\* ValidateSignup, ValidateForgotPassword, ValidatePasswordReset,
\* ValidateEmailVerification and CheckComplexity leave the table unchanged;
\* ValidateLogin changes at most the hash of the looked-up user, SetVerified
\* only that user's verified flag, SetPassword only that user's hash,
\* CreateAccount only adds a row; no call changes a user's email, active or
\* superuser flag or a field of another user.
C13_Frame ==
    [][/\ last'.op \in {"ValidateAutoLogin", "ValidateSignup",
                        "ValidateForgotPassword", "ValidatePasswordReset",
                        "ValidateEmailVerification", "CheckComplexity"}
            => store' = store
       /\ last'.op = "CreateAccount" =>
            /\ Len(store') = Len(store) + 1
            /\ \A i \in 1..Len(store) : store'[i] = store[i]
       /\ last'.op # "CreateAccount" => Len(store') = Len(store)
       /\ last'.op \in {"ValidateLogin", "SetPassword"} =>
            \A i \in 1..Len(store) :
                IF i = last'.uid THEN SameExcept(i, "password")
                ELSE store'[i] = store[i]
       /\ last'.op = "SetVerified" =>
            \A i \in 1..Len(store) :
                IF i = last'.uid THEN SameExcept(i, "verified")
                ELSE store'[i] = store[i]
       /\ \A i \in 1..Len(store) :
            /\ i <= Len(store')
            /\ store'[i].email = store[i].email
            /\ store'[i].active = store[i].active
            /\ store'[i].superuser = store[i].superuser
    ]_vars

\* SetVerified(user, true) was called on an inactive user while another
\* user is in the table
C13_Witness ==
    /\ last.op = "SetVerified"
    /\ last.outcome = "True"
    /\ Len(store) > 1
    /\ store[last.uid].verified
    /\ ~store[last.uid].active

\* some character of sequence str is in class
Has(str, class) == \E i \in DOMAIN str : str[i] \in class

\* the windows of exactly three consecutive characters of sequence str
Windows3(str) == {SubSeq(str, i, i + 2) : i \in 1..(Len(str) - 2)}

\* sequence sub occurs in sequence str
Occurs(str, sub) ==
    \E k \in 1..(Len(str) - Len(sub) + 1) :
        SubSeq(str, k, k + Len(sub) - 1) = sub

\* C14: CheckComplexity(E, P) is false whenever P has fewer than 13
\* characters and whenever P lacks an uppercase letter, a lowercase letter,
\* a digit or a symbol of the fixed set, whatever its length; the result is
\* the conjunction of these checks and the email-substring check.
C14_Complexity ==
    last.op = "check_password_complexity" =>
        LET E == last.email
            P == last.password
        IN  /\ last.outcome \in {"True", "False"}
            /\ Len(P) < 13 => last.outcome = "False"
            /\ ~Has(P, UpperChars) => last.outcome = "False"
            /\ ~Has(P, LowerChars) => last.outcome = "False"
            /\ ~Has(P, DigitChars) => last.outcome = "False"
            /\ ~Has(P, SymbolChars) => last.outcome = "False"
            /\ (last.outcome = "True") <=>
                   /\ Len(P) >= 13
                   /\ Has(P, UpperChars) /\ Has(P, LowerChars)
                   /\ Has(P, DigitChars) /\ Has(P, SymbolChars)
                   /\ check_consecutive_letters(E, P)

\* a password of 13 or more characters with an uppercase letter, a lowercase
\* letter and a digit, no symbol and no email window was rejected
C14_Witness ==
    /\ last.op = "check_password_complexity"
    /\ last.outcome = "False"
    /\ Len(last.password) >= 13
    /\ Has(last.password, UpperChars)
    /\ Has(last.password, LowerChars)
    /\ Has(last.password, DigitChars)
    /\ ~Has(last.password, SymbolChars)
    /\ check_consecutive_letters(last.email, last.password)

\* C15 as stated: the email-substring check ignores case on both sides: if
\* a 3-character window of E, lower-cased, occurs in lower-cased P, then
\* CheckNoEmailSubstring(E, P) and CheckComplexity(E, P) are false.
C15_Original ==
    (/\ last.op \in {"check_consecutive_letters", "check_password_complexity"}
     /\ \E w \in Windows3(Lower(last.email)) :
            Occurs(Lower(last.password), w))
        => last.outcome = "False"

\* C16 as stated: check_consecutive_letters returns True exactly for the
\* passwords whose lower-cased form contains no 3-character window of the
\* email; a shorter fragment of the email in the password does not cause
\* rejection.
C16_Original ==
    last.op = "check_consecutive_letters" =>
        ((last.outcome = "True") <=>
            ~ \E w \in Windows3(last.email) :
                  Occurs(Lower(last.password), w))

\* C17: SetVerified(user, true) raises no error and leaves the user with
\* verified = true and every other field, and every other user, as they
\* were; calling it again on the resulting table gives that same table.
C17_SetVerifiedIdempotent ==
    [][(last'.op = "SetVerified" /\ last'.outcome = "True") =>
          /\ last'.uid \in 1..Len(store)
          /\ store' = [store EXCEPT ![last'.uid].verified = TRUE]
          /\ update_user_verified(store', last'.uid, TRUE) = store'
      ]_vars

\* SetVerified(user, true) was called on a superuser, who is now verified
C17_Witness ==
    /\ last.op = "SetVerified"
    /\ last.outcome = "True"
    /\ store[last.uid].verified
    /\ store[last.uid].superuser

\* C18: CreateAccount(email, p) adds an account with active = true,
\* verified = false, isSuperuser = false whose hash verifies p, and a
\* ValidateLogin(email, p) right after it fails with EmailNotVerified;
\* SetVerified(user, b) stores b, and a ValidateLogin with the right password
\* on an active account returns the user exactly when the stored verified
\* flag is true at that call, EmailNotVerified otherwise; no call changes
\* active.
C18_Lifecycle ==
    [][/\ last'.op = "CreateAccount" =>
              /\ last'.uid = Len(store) + 1
              /\ Len(store') = Len(store) + 1
              /\ store'[last'.uid].email = last'.email
              /\ store'[last'.uid].active
              /\ ~store'[last'.uid].verified
              /\ ~store'[last'.uid].superuser
              /\ ph_verify(store'[last'.uid].password, last'.password)
                     = "match"
       /\ (/\ last.op = "CreateAccount"
           /\ last'.op = "ValidateLogin"
           /\ last'.email = last.email
           /\ last'.password = last.password
           /\ filter_by_email(store, last.email) = {last.uid})
              => last'.outcome = "EmailNotVerified"
       /\ last'.op = "SetVerified" =>
              store'[last'.uid].verified = (last'.outcome = "True")
       /\ (/\ last.op = "SetVerified"
           /\ last'.op = "ValidateLogin"
           /\ last'.uid = last.uid
           /\ store[last.uid].active
           /\ ph_verify(store[last.uid].password, last'.password) = "match")
              => last'.outcome = IF last.outcome = "True" THEN "User"
                                 ELSE "EmailNotVerified"
       /\ (/\ last'.op = "ValidateLogin"
           /\ last'.uid \in 1..Len(store)
           /\ store[last'.uid].active
           /\ ph_verify(store[last'.uid].password, last'.password) = "match")
              => last'.outcome = IF store[last'.uid].verified THEN "User"
                                 ELSE "EmailNotVerified"
       /\ \A i \in 1..Len(store) : store'[i].active = store[i].active
      ]_vars

\* a login on an account made by CreateAccount returned the user
C18_Witness ==
    /\ last.op = "ValidateLogin"
    /\ last.outcome = "User"
    /\ last.uid > MaxInitUsers
    /\ store[last.uid].verified

\* C19: the hash CreateAccount or SetPassword stores verifies the password
\* given to that call and no other; a ValidateLogin, rehash included, leaves
\* every stored hash verifying the passwords it verified before; a
\* ValidateLogin with a password the stored hash does not verify fails with
\* IncorrectPassword, one with the password it verifies passes the password
\* step, and neither is a fatal error; no other call changes a stored hash.
C19_HashVerifiesLastSet ==
    [][/\ last'.op \in {"CreateAccount", "SetPassword"} =>
              /\ last'.uid \in 1..Len(store')
              /\ \A pw \in Passwords :
                     ph_verify(store'[last'.uid].password, pw)
                         = IF pw = last'.password THEN "match"
                           ELSE "mismatch"
       /\ last'.op = "ValidateLogin" =>
              \A i \in 1..Len(store), pw \in Passwords :
                  ph_verify(store'[i].password, pw)
                      = ph_verify(store[i].password, pw)
       /\ (last'.op = "ValidateLogin" /\ last'.uid \in 1..Len(store)) =>
              LET v == ph_verify(store[last'.uid].password, last'.password)
              IN  /\ v = "mismatch" => last'.outcome = "IncorrectPassword"
                  /\ v = "match" =>
                         /\ last'.verify = "match"
                         /\ last'.outcome \in {"User", "AccountDisabled",
                                               "EmailNotVerified"}
                  /\ last'.outcome # "Fatal"
       /\ last'.op \notin {"SetPassword", "ValidateLogin"} =>
              \A i \in 1..Len(store) :
                  store'[i].password = store[i].password
      ]_vars

\* a login passed the password step with a password that does not satisfy
\* the policy, on an account made by CreateAccount: the password was set by
\* SetPassword after the account was created with another one
C19_Witness ==
    /\ last.op = "ValidateLogin"
    /\ last.verify = "match"
    /\ last.uid > MaxInitUsers
    /\ last.password = PwWeak

\* C20: with is_account_locked and lock_account constantly false, no account
\* is locked, no call ends in AccountLocked, and every ValidateLogin whose
\* password the stored hash does not verify ends in IncorrectPassword with
\* the table as it was, whatever failed logins came before.
C20_NeverLocked ==
    [][/\ last'.outcome # "AccountLocked"
       /\ \A i \in 1..Len(store') :
              ~is_account_locked(store'[i]) /\ ~lock_account(store'[i])
       /\ (/\ last'.op = "ValidateLogin"
           /\ last'.uid \in 1..Len(store)
           /\ ph_verify(store[last'.uid].password, last'.password)
                  = "mismatch")
              => /\ last'.outcome = "IncorrectPassword"
                 /\ last'.lock
                 /\ store' = store
      ]_vars

\* a failed login with one wrong password directly after a failed login
\* cannot be seen in one state; this is a failed login on an active,
\* verified account whose lock_account call was made
C20_Witness ==
    /\ last.op = "ValidateLogin"
    /\ last.outcome = "IncorrectPassword"
    /\ last.lock
    /\ store[last.uid].active
    /\ store[last.uid].verified

====
